---- MODULE Spec2Model ----
(***************************************************************************)
(* randword-rs: a hotkey-driven utility that emits the next line of        *)
(* words.txt on every Ctrl+Alt+X, either as synthetic keystrokes or on the *)
(* clipboard, and persists the number of consumed lines in skipline.dat.   *)
(* The model follows src/src/main.rs: main (startup, run loop, shutdown),  *)
(* poll_event (one action per iteration of its PeekMessageW loop),         *)
(* wndproc, u64_to_array, parse_lines_to_skip, type_out_characters and     *)
(* set_clipboard_string.  Files are byte sequences; the stream position    *)
(* of words.txt is a byte offset.                                          *)
(***************************************************************************)
EXTENDS Integers, Sequences, FiniteSets, TLC

(* ------------------------------ bounds --------------------------------- *)
\* longest words.txt, in bytes
MaxFileLen == 3
\* most messages waiting in the window's queue at once
MaxQueue == 2
\* most messages posted to the window over all runs
MaxPosts == 3
\* longest text handed to the output sink in the sink specification
MaxTextLen == 3
\* cursor samples of the codec specification are m * 10^e, m <= MaxMantissa
MaxMantissa == 12

(* --------------------------- program constants ------------------------- *)
SKILINE_NUMBER_SIZE == 8

\* bytes
NL == 10
NUL == 0
ASCII_0 == 48
ASCII_9 == 57

\* bytes that words.txt is made of: '\n' and 'a'
WordBytes == {NL, 97}
\* bytes of the texts of the sink specification: 'a', 'A', '~'
SinkBytes == {97, 65, 126}
\* contents an uninitialised byte of a fresh GlobalAlloc block may have
GarbageBytes == {NUL, 205}

VARIABLES
    words,              \* content of ./words.txt
    skipline,           \* content of ./skipline.dat
    run,                \* number of the current process run
    pc,                 \* position of the control thread
    IS_RUNNING,         \* static mut IS_RUNNING
    hotkey_registered,  \* RegisterHotKey succeeded and UnregisterHotKey not yet called
    queue,              \* messages posted to the window, not yet removed
    posted,             \* messages posted so far, over all runs
    lines_to_skip,      \* main's lines_to_skip, the Cursor
    ifile_pos,          \* byte offset of the ifile stream in words.txt
    use_clipboard,      \* main's use_clipboard
    last_act,           \* outcome of the last activation: "none", "emit", "wrap"
    sink_text,          \* line_slice handed to the output sink by the last activation
    sent_input,         \* INPUT events SendInput injected in the last activation
    clipboard,          \* CF_TEXT content of the clipboard, <<>> when it has none
    clip_error,         \* the last activation showed the "Clipboard Error" box
    clip_failed_at,     \* value of acts at the last clipboard-open failure, 0 if none
    acts,               \* activations performed in this run
    tick_pending,       \* messages that were queued when this tick began and are still queued
    tick_acts,          \* activations performed in this tick
    start_cursor,       \* value of lines_to_skip when the run loop was entered
    prev_exit,          \* how the previous run ended: "none", "done"
    prev_cursor,        \* lines_to_skip at the end of the previous run
    prev_pos,           \* ifile_pos at the end of the previous run
    stopped_by,         \* the message that cleared IS_RUNNING in this run, "none" if none
    acts_after_stop,    \* activations performed in this run with IS_RUNNING cleared
    writes,             \* writes to skipline.dat made by this run
    startup_error       \* the startup step of this run that failed, "none" if none

vars == <<words, skipline, run, pc, IS_RUNNING, hotkey_registered, queue, posted,
          lines_to_skip, ifile_pos, use_clipboard, last_act, sink_text, sent_input,
          clipboard, clip_error, clip_failed_at, acts, tick_pending, tick_acts,
          start_cursor, prev_exit, prev_cursor, prev_pos, stopped_by,
          acts_after_stop, writes, startup_error>>

(* ------------------------------ helpers -------------------------------- *)
RECURSIVE SeqsUpTo(_, _)
SeqsUpTo(S, n) ==
    IF n = 0 THEN {<<>>}
    ELSE LET shorter == SeqsUpTo(S, n - 1)
         IN  shorter \cup {Append(s, b) : s \in {t \in shorter : Len(t) = n - 1}, b \in S}

RECURSIVE Pow10(_)
Pow10(e) == IF e = 0 THEN 1 ELSE 10 * Pow10(e - 1)

(* --------------------- u64_to_array (main.rs 334-357) ------------------ *)
\* a second loop that takes the digit '0' for an unused byte
CopyNonZero_DropsDigitZero(buf, k, res, i) ==
    LET kept == SelectSeq(buf, LAMBDA b : b # 0 /\ b # ASCII_0)
    IN  [j \in 1..Len(buf) |-> IF j <= Len(kept) THEN kept[j] ELSE 0]

\* a second loop that returns buf as the first loop left it
CopyNonZero_NoCompaction(buf, k, res, i) == buf

\* first loop: digits are stored from the last byte backwards until num is 0
RECURSIVE FillFromEnd(_, _, _)
FillFromEnd(buf, i, num) ==
    IF i = 0 THEN buf
    ELSE LET b == [buf EXCEPT ![i] = ASCII_0 + (num % 10)]
             n == num \div 10
         IN  IF n = 0 THEN b ELSE FillFromEnd(b, i - 1, n)

\* second loop: the non-zero bytes of buf are copied to the front of res
RECURSIVE CopyNonZero(_, _, _, _)
CopyNonZero(buf, k, res, i) ==
    IF k > Len(buf) THEN res
    ELSE IF buf[k] # 0
         THEN CopyNonZero(buf, k + 1, [res EXCEPT ![i + 1] = buf[k]], i + 1)
         ELSE CopyNonZero(buf, k + 1, res, i)

u64_to_array(N, num) ==
    LET buf == FillFromEnd([k \in 1..N |-> 0], N, num)
    IN  CopyNonZero(buf, 1, [k \in 1..N |-> 0], 0)

(* ------------------ parse_lines_to_skip (main.rs 465-473) -------------- *)
\* a range test that leaves out its lower end
IsDigitByte_NoZero(digit) == digit > ASCII_0 /\ digit <= ASCII_9

IsDigitByte(digit) == digit >= ASCII_0 /\ digit <= ASCII_9

RECURSIVE ParseFrom(_, _, _)
ParseFrom(file_line_buff, k, result) ==
    IF k > Len(file_line_buff) THEN result
    ELSE IF IsDigitByte(file_line_buff[k])
         THEN ParseFrom(file_line_buff, k + 1, result * 10 + (file_line_buff[k] - ASCII_0))
         ELSE ParseFrom(file_line_buff, k + 1, result)

parse_lines_to_skip(file_line_buff) == ParseFrom(file_line_buff, 1, 0)

(* ------------------------- the ifile line source ----------------------- *)
\* offset just past the next '\n' at or after offset pos, or the end of the file:
\* where read_line / read_until(b'\n') leave the stream
RECURSIVE LineEnd(_, _)
LineEnd(f, pos) ==
    IF pos >= Len(f) THEN Len(f)
    ELSE IF f[pos + 1] = NL THEN pos + 1 ELSE LineEnd(f, pos + 1)

\* ifile.read_line(buffer) after buffer.clear(): the bytes appended to buffer
read_line(f, pos) == SubSeq(f, pos + 1, LineEnd(f, pos))

\* a skip loop that runs one time too few
RECURSIVE SkipLines_OneShort(_, _, _)
SkipLines_OneShort(f, pos, n) ==
    IF n <= 1 \/ pos >= Len(f) THEN pos
    ELSE SkipLines_OneShort(f, LineEnd(f, pos), n - 1)

\* a startup that forgets to skip
SkipLines_NoSkip(f, pos, n) == pos

\* the startup loop "for _ in 0..lines_to_skip { ifile.read_until(b'\n', ..) }";
\* a read at the end of the file reads nothing, so the rest of the loop is idle
RECURSIVE SkipLines(_, _, _)
SkipLines(f, pos, n) ==
    IF n = 0 \/ pos >= Len(f) THEN pos
    ELSE SkipLines(f, LineEnd(f, pos), n - 1)

\* line_slice = &buffer[..size - 1]
LineSlice(buffer) == SubSeq(buffer, 1, Len(buffer) - 1)

(* ------------------ type_out_characters (main.rs 403-429) --------------- *)
KEYEVENTF_KEYUP == 2

\* the keyboard layout: 'a' is the A key, 'A' is Shift+A, '\n' is Ctrl+Enter,
\* '~' has no key
VkKeyScanW(chr) ==
    CASE chr = 97 -> 65
      [] chr = 65 -> 321
      [] chr = NL -> 525
      [] OTHER    -> -1

MapVirtualKeyW(wvk) ==
    CASE wvk = 65 -> 30
      [] wvk = 13 -> 28
      [] OTHER    -> 0

lobyte(w) == w % 256

\* the INPUT events one iteration of the loop hands to SendInput: the key-down
\* event is sent; the key-up event is built afterwards and never sent
KeyInputs(chr) ==
    LET vkey == VkKeyScanW(chr)
        wvk  == lobyte(vkey)
    IN  IF vkey <= -1 THEN <<>>
        ELSE <<[wVk |-> wvk, wScan |-> MapVirtualKeyW(wvk), dwFlags |-> 0]>>

RECURSIVE type_out_characters(_)
type_out_characters(line_slice) ==
    IF line_slice = <<>> THEN <<>>
    ELSE KeyInputs(Head(line_slice)) \o type_out_characters(Tail(line_slice))

(* ------------------ set_clipboard_string (main.rs 431-463) -------------- *)
\* the blocks GlobalAlloc(GMEM_MOVEABLE, size) may return: size bytes, not zeroed
GlobalAlloc(size) == [1..size -> GarbageBytes]

\* the copy loop "for i in 0..line_slice.len()" into the locked block
CopyToBlock(bytes, block) ==
    [k \in 1..Len(block) |-> IF k <= Len(bytes) THEN bytes[k] ELSE block[k]]

(* ------------------------------ messages ------------------------------- *)
Msg(m, w) == [message |-> m, wParam |-> w]

\* the messages the queue may hold.  WM_DESTROY is not among them: it takes the
\* same arm of wndproc as WM_CLOSE, and it is sent only by DestroyWindow, which
\* this program calls when main's window is dropped, after the run loop.
Messages == {Msg("WM_QUIT", 0), Msg("WM_CLOSE", 0),
             Msg("WM_HOTKEY", 1), Msg("WM_HOTKEY", 2), Msg("WM_PAINT", 0)}

\* a test of the message kind that forgets the identifier
IsActivation_AnyId(msg) == msg.message = "WM_HOTKEY"

\* a test for the wrong identifier
IsActivation_OtherId(msg) == msg.message = "WM_HOTKEY" /\ msg.wParam = 2

\* poll_event, 373-374: the message is the registered hotkey
IsActivation(msg) == msg.message = "WM_HOTKEY" /\ msg.wParam = 1

\* wndproc: the new value of IS_RUNNING after the window procedure handled msg
wndproc(msg, running) ==
    IF msg.message \in {"WM_DESTROY", "WM_CLOSE"} THEN FALSE ELSE running

(* ------------------------------- files --------------------------------- *)
WordFiles == SeqsUpTo(WordBytes, MaxFileLen)

\* skipline.dat as found at the first start: records written by an earlier run
\* (cursor 0 and 2), a hand-made record "00000001", and a one-byte file "1"
InitialRecords ==
    {u64_to_array(SKILINE_NUMBER_SIZE, k) : k \in {0, 2}}
    \cup {<<48, 48, 48, 48, 48, 48, 48, 49>>, <<49>>}

\* file_line.read_exact(&mut file_line_buff) on a buffer of '0' bytes: the
\* buffers it may leave.  On a short file the read fails and the content of
\* the buffer is unspecified: any prefix of the file may have been copied.
ReadExact(file) ==
    IF Len(file) >= SKILINE_NUMBER_SIZE
    THEN {SubSeq(file, 1, SKILINE_NUMBER_SIZE)}
    ELSE {[k \in 1..SKILINE_NUMBER_SIZE |-> IF k <= j THEN file[k] ELSE ASCII_0] :
             j \in 0..Len(file)}

\* a write of the digit bytes only, without the NUL bytes behind them
WriteAtStart_DigitsOnly(file, bytes) ==
    LET digits == SelectSeq(bytes, LAMBDA b : b # NUL)
    IN  digits \o SubSeq(file, Len(digits) + 1, Len(file))

\* a write without the seek: after read_exact the file position is behind the record
WriteAtStart_NoSeek(file, bytes) ==
    LET at == IF Len(file) < SKILINE_NUMBER_SIZE THEN Len(file) ELSE SKILINE_NUMBER_SIZE
    IN  SubSeq(file, 1, at) \o bytes

\* file_line.seek(Start(0)); file_line.write_all(&skipline_array)
WriteAtStart(file, bytes) ==
    bytes \o SubSeq(file, Len(bytes) + 1, Len(file))

(* ------------- one activation: poll_event, main.rs 376-391 ------------- *)
\* an exhaustion branch that counts the failed read as a line
Activate_CountsWrap(f, pos, cursor) ==
    LET buffer == read_line(f, pos)
        size   == Len(buffer)
    IN  IF size = 0
        THEN [cursor |-> cursor + 1, pos |-> 0, act |-> "wrap", text |-> <<>>]
        ELSE [cursor |-> cursor + 1, pos |-> pos + size, act |-> "emit",
              text |-> LineSlice(buffer)]

\* an exhaustion branch that rewinds but forgets "*linse_to_skip = 0"
Activate_NoReset(f, pos, cursor) ==
    LET buffer == read_line(f, pos)
        size   == Len(buffer)
    IN  IF size = 0
        THEN [cursor |-> cursor, pos |-> 0, act |-> "wrap", text |-> <<>>]
        ELSE [cursor |-> cursor + 1, pos |-> pos + size, act |-> "emit",
              text |-> LineSlice(buffer)]

\* buffer.clear(); read_line; then either the exhaustion branch (cursor reset,
\* rewind) or the cursor increment with the slice handed to the output sink
Activate(f, pos, cursor) ==
    LET buffer == read_line(f, pos)
        size   == Len(buffer)
    IN  IF size = 0
        THEN [cursor |-> 0, pos |-> 0, act |-> "wrap", text |-> <<>>]
        ELSE [cursor |-> cursor + 1, pos |-> pos + size, act |-> "emit",
              text |-> LineSlice(buffer)]

\* a break that was left out: the loop goes on with the next message
AfterActivation_NoBreak == "poll"

\* where poll_event continues after an activation: the "break" at line 392
\* leaves the PeekMessageW loop, poll_event returns and main sleeps
AfterActivation == "sleep"

\* an error branch that also gives up the run loop, as wndproc does on close
set_clipboard_string_Fatal(line_slice, old, running) ==
    {[clipboard |-> old, error |-> TRUE, running |-> FALSE]}
    \cup {[clipboard |-> <<>>, error |-> FALSE, running |-> running]}
    \cup {[clipboard |-> CopyToBlock(line_slice, block), error |-> FALSE,
            running |-> running] : block \in GlobalAlloc(Len(line_slice) + 1)}

\* what set_clipboard_string may do to the clipboard and to IS_RUNNING:
\* OpenClipboard fails (error box, clipboard untouched); GlobalAlloc fails
\* (clipboard emptied, nothing published); or the block is filled and
\* published.  No branch touches IS_RUNNING.
set_clipboard_string(line_slice, old, running) ==
    {[clipboard |-> old, error |-> TRUE, running |-> running]}
    \cup {[clipboard |-> <<>>, error |-> FALSE, running |-> running]}
    \cup {[clipboard |-> CopyToBlock(line_slice, block), error |-> FALSE,
            running |-> running] : block \in GlobalAlloc(Len(line_slice) + 1)}

\* the output sink, main.rs 386-390: the clipboard or the keystrokes
Sink(line_slice) ==
    IF use_clipboard
    THEN /\ sent_input' = <<>>
         /\ \E out \in set_clipboard_string(line_slice, clipboard, IS_RUNNING) :
               /\ clipboard' = out.clipboard
               /\ clip_error' = out.error
               /\ IS_RUNNING' = out.running
    ELSE /\ sent_input' = type_out_characters(line_slice)
         /\ clip_error' = FALSE
         /\ UNCHANGED <<clipboard, IS_RUNNING>>

(* ------------------------------- Init ---------------------------------- *)
Init ==
    /\ words \in WordFiles
    /\ skipline \in InitialRecords
    /\ run = 1
    /\ pc = "start"
    /\ IS_RUNNING = TRUE
    /\ hotkey_registered = FALSE
    /\ queue = <<>>
    /\ posted = 0
    /\ lines_to_skip = 0
    /\ ifile_pos = 0
    /\ use_clipboard = FALSE
    /\ last_act = "none"
    /\ sink_text = <<>>
    /\ sent_input = <<>>
    /\ clipboard = <<>>
    /\ clip_error = FALSE
    /\ clip_failed_at = 0
    /\ acts = 0
    /\ tick_pending = 0
    /\ tick_acts = 0
    /\ start_cursor = 0
    /\ prev_exit = "none"
    /\ prev_cursor = 0
    /\ prev_pos = 0
    /\ stopped_by = "none"
    /\ acts_after_stop = 0
    /\ writes = 0
    /\ startup_error = "none"

(* ---------------------- main: startup, 217-320 -------------------------- *)
\* a startup step that fails: window creation or hotkey registration (before
\* the hotkey exists), or opening skipline.dat or words.txt (after it)
StartupAbort ==
    /\ pc = "start"
    /\ \E failure \in {"window", "hotkey", "open_skipline", "open_words"} :
          /\ hotkey_registered' = (failure \in {"open_skipline", "open_words"})
          /\ startup_error' = failure
    /\ pc' = "aborted"
    /\ UNCHANGED <<words, skipline, run, IS_RUNNING, queue, posted, lines_to_skip,
                   ifile_pos, use_clipboard, last_act, sink_text, sent_input,
                   clipboard, clip_error, clip_failed_at, acts, tick_pending,
                   tick_acts, start_cursor, prev_exit, prev_cursor, prev_pos,
                   stopped_by, acts_after_stop, writes>>

\* the whole of a successful startup: register the hotkey, read and parse the
\* record (a failed read_exact shows a box and goes on), open words.txt, skip
\* lines_to_skip lines, take the output mode from the first argument
Startup ==
    /\ pc = "start"
    /\ hotkey_registered' = TRUE
    /\ \E file_line_buff \in ReadExact(skipline) :
          /\ lines_to_skip' = parse_lines_to_skip(file_line_buff)
          /\ ifile_pos' = SkipLines(words, 0, parse_lines_to_skip(file_line_buff))
          /\ start_cursor' = parse_lines_to_skip(file_line_buff)
    /\ use_clipboard' \in BOOLEAN
    /\ pc' = "loop"
    /\ startup_error' = IF Len(skipline) < SKILINE_NUMBER_SIZE THEN "read_skipline" ELSE "none"
    /\ UNCHANGED <<words, skipline, run, IS_RUNNING, queue, posted, last_act,
                   sink_text, sent_input, clipboard, clip_error, clip_failed_at,
                   acts, tick_pending, tick_acts, prev_exit, prev_cursor, prev_pos,
                   stopped_by, acts_after_stop, writes>>

(* -------------------- the environment posts a message ------------------ *)
Post ==
    /\ pc \in {"loop", "poll", "sleep"}
    /\ Len(queue) < MaxQueue
    /\ posted < MaxPosts
    /\ \E msg \in Messages : queue' = Append(queue, msg)
    /\ posted' = posted + 1
    /\ UNCHANGED <<words, skipline, run, pc, IS_RUNNING, hotkey_registered,
                   lines_to_skip, ifile_pos, use_clipboard, last_act, sink_text,
                   sent_input, clipboard, clip_error, clip_failed_at, acts,
                   tick_pending, tick_acts, start_cursor, prev_exit, prev_cursor,
                   prev_pos,
                   stopped_by, acts_after_stop, writes, startup_error>>

(* ---------------------- main: run loop, 322-325 ------------------------- *)
\* a loop that never looks at the flag
WhileRunning_IgnoresFlag ==
    /\ pc' = "poll"
    /\ tick_pending' = Len(queue)
    /\ tick_acts' = 0

\* "while is_runnig()": enter poll_event, or leave the loop
WhileRunning ==
    IF IS_RUNNING
    THEN /\ pc' = "poll"
         /\ tick_pending' = Len(queue)
         /\ tick_acts' = 0
    ELSE /\ pc' = "exit"
         /\ UNCHANGED <<tick_pending, tick_acts>>

\* the first test of the loop condition, after startup
LoopTest ==
    /\ pc = "loop"
    /\ WhileRunning
    /\ UNCHANGED <<words, skipline, run, IS_RUNNING, hotkey_registered, queue, posted,
                   lines_to_skip, ifile_pos, use_clipboard, last_act, sink_text,
                   sent_input, clipboard, clip_error, clip_failed_at, acts,
                   start_cursor, prev_exit, prev_cursor, prev_pos,
                   stopped_by, acts_after_stop, writes, startup_error>>

\* Sleep(38) after poll_event returned, then the loop condition again
Sleep ==
    /\ pc = "sleep"
    /\ WhileRunning
    /\ UNCHANGED <<words, skipline, run, IS_RUNNING, hotkey_registered, queue, posted,
                   lines_to_skip, ifile_pos, use_clipboard, last_act, sink_text,
                   sent_input, clipboard, clip_error, clip_failed_at, acts,
                   start_cursor, prev_exit, prev_cursor, prev_pos,
                   stopped_by, acts_after_stop, writes, startup_error>>

(* -------------------------- poll_event, 359-397 ------------------------- *)
Removed == IF tick_pending > 0 THEN tick_pending - 1 ELSE 0

\* PeekMessageW finds no message: the loop ends and poll_event returns
PollEmpty ==
    /\ pc = "poll"
    /\ queue = <<>>
    /\ pc' = "sleep"
    /\ UNCHANGED <<words, skipline, run, IS_RUNNING, hotkey_registered, queue, posted,
                   lines_to_skip, ifile_pos, use_clipboard, last_act, sink_text,
                   sent_input, clipboard, clip_error, clip_failed_at, acts,
                   tick_pending, tick_acts, start_cursor, prev_exit, prev_cursor,
                   prev_pos,
                   stopped_by, acts_after_stop, writes, startup_error>>

\* WM_QUIT: clear the flag and return at once
PollQuit ==
    /\ pc = "poll"
    /\ queue # <<>>
    /\ Head(queue).message = "WM_QUIT"
    /\ queue' = Tail(queue)
    /\ tick_pending' = Removed
    /\ IS_RUNNING' = FALSE
    /\ pc' = "sleep"
    /\ stopped_by' = IF IS_RUNNING THEN "WM_QUIT" ELSE stopped_by
    /\ UNCHANGED <<words, skipline, run, hotkey_registered, posted, lines_to_skip,
                   ifile_pos, use_clipboard, last_act, sink_text, sent_input,
                   clipboard, clip_error, clip_failed_at, acts, tick_acts,
                   start_cursor, prev_exit, prev_cursor, prev_pos,
                   acts_after_stop, writes, startup_error>>

\* any message that is neither WM_QUIT nor the hotkey with identifier 1:
\* DispatchMessageW hands it to wndproc, and the loop goes on
PollDispatch ==
    /\ pc = "poll"
    /\ queue # <<>>
    /\ Head(queue).message # "WM_QUIT"
    /\ ~IsActivation(Head(queue))
    /\ queue' = Tail(queue)
    /\ tick_pending' = Removed
    /\ IS_RUNNING' = wndproc(Head(queue), IS_RUNNING)
    /\ stopped_by' = IF IS_RUNNING /\ ~wndproc(Head(queue), IS_RUNNING)
                     THEN Head(queue).message ELSE stopped_by
    /\ UNCHANGED <<words, skipline, run, pc, hotkey_registered, posted, lines_to_skip,
                   ifile_pos, use_clipboard, last_act, sink_text, sent_input,
                   clipboard, clip_error, clip_failed_at, acts, tick_acts,
                   start_cursor, prev_exit, prev_cursor, prev_pos,
                   acts_after_stop, writes, startup_error>>

\* WM_HOTKEY with identifier 1: one activation, then the break
PollHotkey ==
    /\ pc = "poll"
    /\ queue # <<>>
    /\ IsActivation(Head(queue))
    /\ queue' = Tail(queue)
    /\ tick_pending' = Removed
    /\ LET a == Activate(words, ifile_pos, lines_to_skip)
       IN  /\ lines_to_skip' = a.cursor
           /\ ifile_pos' = a.pos
           /\ last_act' = a.act
           /\ sink_text' = a.text
           /\ acts' = acts + 1
           /\ IF a.act = "wrap"
              THEN /\ sent_input' = <<>>
                   /\ clip_error' = FALSE
                   /\ UNCHANGED <<clipboard, IS_RUNNING>>
              ELSE Sink(a.text)
    /\ clip_failed_at' = IF clip_error' THEN acts + 1 ELSE clip_failed_at
    /\ tick_acts' = tick_acts + 1
    /\ pc' = AfterActivation
    /\ acts_after_stop' = IF IS_RUNNING THEN acts_after_stop ELSE acts_after_stop + 1
    /\ UNCHANGED <<words, skipline, run, hotkey_registered, posted,
                   use_clipboard, start_cursor, prev_exit, prev_cursor, prev_pos,
                   stopped_by, writes, startup_error>>

\* read_line or rewind returns an error: "expect" panics and the process dies
\* without reaching the code after the run loop
PollHotkeyPanic ==
    /\ pc = "poll"
    /\ queue # <<>>
    /\ IsActivation(Head(queue))
    /\ queue' = Tail(queue)
    /\ tick_pending' = Removed
    /\ \/ UNCHANGED lines_to_skip
       \/ /\ Len(read_line(words, ifile_pos)) = 0
          /\ lines_to_skip' = 0
    /\ pc' = "panicked"
    /\ UNCHANGED <<words, skipline, run, IS_RUNNING, hotkey_registered, posted,
                   ifile_pos, use_clipboard, last_act, sink_text, sent_input,
                   clipboard, clip_error, clip_failed_at, acts, tick_acts,
                   start_cursor, prev_exit, prev_cursor, prev_pos,
                   stopped_by, acts_after_stop, writes, startup_error>>

(* ---------------------- main: shutdown, 327-331 ------------------------- *)
\* UnregisterHotKey, then the cursor is rendered and written over the record
Shutdown ==
    /\ pc = "exit"
    /\ hotkey_registered' = FALSE
    /\ skipline' = WriteAtStart(skipline, u64_to_array(SKILINE_NUMBER_SIZE, lines_to_skip))
    /\ prev_exit' = "done"
    /\ prev_cursor' = lines_to_skip
    /\ prev_pos' = ifile_pos
    /\ pc' = "done"
    /\ writes' = writes + 1
    /\ UNCHANGED <<words, run, IS_RUNNING, queue, posted, lines_to_skip, ifile_pos,
                   use_clipboard, last_act, sink_text, sent_input, clipboard,
                   clip_error, clip_failed_at, acts, tick_pending, tick_acts,
                   start_cursor,
                   stopped_by, acts_after_stop, startup_error>>

\* the user starts the program again after it ended normally: a new process
\* with fresh statics and an empty queue, the files and the clipboard as left
Restart ==
    /\ pc = "done"
    /\ run' = run + 1
    /\ pc' = "start"
    /\ IS_RUNNING' = TRUE
    /\ queue' = <<>>
    /\ lines_to_skip' = 0
    /\ ifile_pos' = 0
    /\ use_clipboard' = FALSE
    /\ last_act' = "none"
    /\ sink_text' = <<>>
    /\ sent_input' = <<>>
    /\ clip_error' = FALSE
    /\ clip_failed_at' = 0
    /\ acts' = 0
    /\ tick_pending' = 0
    /\ tick_acts' = 0
    /\ start_cursor' = 0
    /\ stopped_by' = "none"
    /\ acts_after_stop' = 0
    /\ writes' = 0
    /\ startup_error' = "none"
    /\ UNCHANGED <<words, skipline, hotkey_registered, posted, clipboard, prev_exit,
                   prev_cursor, prev_pos>>

Next ==
    \/ StartupAbort
    \/ Startup
    \/ Post
    \/ LoopTest
    \/ Sleep
    \/ PollEmpty
    \/ PollQuit
    \/ PollDispatch
    \/ PollHotkey
    \/ PollHotkeyPanic
    \/ Shutdown
    \/ Restart

Spec == Init /\ [][Next]_vars

(* ------- the same program under a scheduler that keeps main running ------ *)
\* one record (cursor 0) and two word files: an empty one and a one-line one
InitLive ==
    /\ Init
    /\ words \in {<<>>, <<97, NL>>}
    /\ skipline = u64_to_array(SKILINE_NUMBER_SIZE, 0)

\* main is one thread that is never blocked: the loop test, poll_event's
\* PeekMessageW loop, Sleep(38) and the statements after the loop all run when
\* they are reached.  Posting messages, failures and a new start of the program
\* are up to the environment and get no fairness.
Fairness ==
    /\ WF_vars(LoopTest)
    /\ WF_vars(Sleep)
    /\ WF_vars(PollEmpty)
    /\ WF_vars(PollQuit)
    /\ WF_vars(PollDispatch)
    /\ WF_vars(PollHotkey \/ PollHotkeyPanic)
    /\ WF_vars(Shutdown)

SpecLive == InitLive /\ [][Next]_vars /\ Fairness

(* ------------- the output sink on its own: any short text --------------- *)
InitSink ==
    /\ sink_text \in SeqsUpTo(SinkBytes, MaxTextLen)
    /\ use_clipboard \in BOOLEAN
    /\ pc = "emit"
    /\ last_act = "emit"
    /\ words = <<>>
    /\ skipline = u64_to_array(SKILINE_NUMBER_SIZE, 0)
    /\ run = 1
    /\ IS_RUNNING = TRUE
    /\ hotkey_registered = TRUE
    /\ queue = <<>>
    /\ posted = 0
    /\ lines_to_skip = 0
    /\ ifile_pos = 0
    /\ sent_input = <<>>
    /\ clipboard = <<>>
    /\ clip_error = FALSE
    /\ clip_failed_at = 0
    /\ acts = 0
    /\ tick_pending = 0
    /\ tick_acts = 0
    /\ start_cursor = 0
    /\ prev_exit = "none"
    /\ prev_cursor = 0
    /\ prev_pos = 0
    /\ stopped_by = "none"
    /\ acts_after_stop = 0
    /\ writes = 0
    /\ startup_error = "none"

\* the text is handed to the sink chosen at startup
EmitText ==
    /\ pc = "emit"
    /\ Sink(sink_text)
    /\ pc' = "emitted"
    /\ UNCHANGED <<words, skipline, run, hotkey_registered, queue, posted,
                   lines_to_skip, ifile_pos, use_clipboard, last_act, sink_text,
                   clip_failed_at, acts, tick_pending, tick_acts, start_cursor,
                   prev_exit, prev_cursor, prev_pos,
                   stopped_by, acts_after_stop, writes, startup_error>>

NextSink == EmitText

SpecSink == InitSink /\ [][NextSink]_vars

(* ---------- the cursor record on its own: save, restart, load ----------- *)
\* cursor values with one to nine digits: m * 10^e and 10^e - 1
CursorSamples ==
    {m * Pow10(e) : m \in 0..MaxMantissa, e \in 0..(SKILINE_NUMBER_SIZE - 1)}
    \cup {Pow10(e) - 1 : e \in 1..SKILINE_NUMBER_SIZE}

\* the run loop has just been left with some cursor, over some older record
\* that this run loaded at its start
InitCodec ==
    /\ lines_to_skip \in CursorSamples
    /\ skipline \in InitialRecords \cup {u64_to_array(SKILINE_NUMBER_SIZE, 99999999)}
    /\ pc = "exit"
    /\ IS_RUNNING = FALSE
    /\ hotkey_registered = TRUE
    /\ words = <<>>
    /\ run = 1
    /\ queue = <<>>
    /\ posted = 0
    /\ ifile_pos = 0
    /\ use_clipboard = FALSE
    /\ last_act = "none"
    /\ sink_text = <<>>
    /\ sent_input = <<>>
    /\ clipboard = <<>>
    /\ clip_error = FALSE
    /\ clip_failed_at = 0
    /\ acts = 0
    /\ tick_pending = 0
    /\ tick_acts = 0
    /\ start_cursor \in {parse_lines_to_skip(b) : b \in ReadExact(skipline)}
    /\ prev_exit = "none"
    /\ prev_cursor = 0
    /\ prev_pos = 0
    /\ stopped_by = "none"
    /\ acts_after_stop = 0
    /\ writes = 0
    /\ startup_error = "none"

NextCodec ==
    \/ Shutdown
    \/ Restart
    \/ Startup

SpecCodec == InitCodec /\ [][NextCodec]_vars

(* ------------- loading the cursor from any 8-byte record ---------------- *)
\* bytes of the records: NUL, '/', '0', '9', ':'
RecordBytes == {NUL, 47, ASCII_0, ASCII_9, 58}

InitParse ==
    /\ skipline \in [1..SKILINE_NUMBER_SIZE -> RecordBytes]
    /\ pc = "start"
    /\ IS_RUNNING = TRUE
    /\ hotkey_registered = FALSE
    /\ words = <<>>
    /\ run = 1
    /\ queue = <<>>
    /\ posted = 0
    /\ lines_to_skip = 0
    /\ ifile_pos = 0
    /\ use_clipboard = FALSE
    /\ last_act = "none"
    /\ sink_text = <<>>
    /\ sent_input = <<>>
    /\ clipboard = <<>>
    /\ clip_error = FALSE
    /\ clip_failed_at = 0
    /\ acts = 0
    /\ tick_pending = 0
    /\ tick_acts = 0
    /\ start_cursor = 0
    /\ prev_exit = "none"
    /\ prev_cursor = 0
    /\ prev_pos = 0
    /\ stopped_by = "none"
    /\ acts_after_stop = 0
    /\ writes = 0
    /\ startup_error = "none"

NextParse == Startup

SpecParse == InitParse /\ [][NextParse]_vars

(* ===================== the words file, line by line ===================== *)
\* offsets (1-based) of the '\n' bytes of f
Newlines(f) == {i \in 1..Len(f) : f[i] = NL}

\* every line of f ends with '\n'
NewlineTerminated(f) == Len(f) = 0 \/ f[Len(f)] = NL

\* number of lines of f; bytes after the last '\n' are one more line
NumLines(f) == Cardinality(Newlines(f)) + (IF NewlineTerminated(f) THEN 0 ELSE 1)

\* offset of the k-th '\n' of f
NthNewline(f, k) ==
    CHOOSE i \in Newlines(f) : Cardinality({j \in Newlines(f) : j <= i}) = k

\* line k of f (1 <= k <= NumLines(f)) without its terminator
LineText(f, k) ==
    LET first == IF k = 1 THEN 1 ELSE NthNewline(f, k - 1) + 1
        last  == IF k <= Cardinality(Newlines(f)) THEN NthNewline(f, k) - 1 ELSE Len(f)
    IN  SubSeq(f, first, last)

\* the control thread is in the run loop or has left it in the normal way
InRun == pc \in {"loop", "poll", "sleep", "exit", "done"}

(* ================================ C1 ==================================== *)
\* C1: with the run loop entered at Cursor = 0 on a words file of N lines that
\* all end with '\n', after the j-th activation of the run Cursor is
\* j mod (N+1); when that is not 0 the activation handed line (j mod (N+1)) to
\* the output sink, and when it is 0 the activation emitted nothing and left
\* the stream rewound to the start of the file.
C1_ActivationCycle ==
    (InRun /\ start_cursor = 0 /\ NewlineTerminated(words) /\ acts > 0) =>
        LET r == acts % (NumLines(words) + 1)
        IN  /\ lines_to_skip = r
            /\ r # 0 => (last_act = "emit" /\ sink_text = LineText(words, r))
            /\ r = 0 => (last_act = "wrap" /\ ifile_pos = 0 /\ sent_input = <<>>)

\* the activation after a wraparound has emitted line 1 again
C1_Witness ==
    /\ InRun /\ start_cursor = 0 /\ NewlineTerminated(words)
    /\ NumLines(words) >= 1
    /\ acts = NumLines(words) + 2
    /\ last_act = "emit"
    /\ sink_text = LineText(words, 1)

(* ================================ C2 ==================================== *)
\* C2: after a normal shutdown and a restart on the same words file, before
\* any activation of the new run, an activation does exactly what it would
\* have done at the end of the previous run: same branch, same text handed to
\* the sink, same resulting Cursor and stream position.
C2_ResumeAfterRestart ==
    (run > 1 /\ prev_exit = "done" /\ pc \in {"loop", "poll", "sleep"} /\ acts = 0) =>
        Activate(words, ifile_pos, lines_to_skip) = Activate(words, prev_pos, prev_cursor)

\* a run that stopped in the middle of the file was restarted and its first
\* activation emitted the line after the last one of the previous run
C2_Witness ==
    /\ run > 1 /\ prev_exit = "done" /\ pc \in {"loop", "poll", "sleep"}
    /\ prev_cursor >= 1
    /\ acts = 1
    /\ last_act = "emit"
    /\ lines_to_skip = prev_cursor + 1
    /\ sink_text = LineText(words, prev_cursor + 1)

(* ================================ C3 ==================================== *)
\* number of lines of f that end at or before offset pos
LinesBefore(f, pos) ==
    Cardinality({i \in Newlines(f) : i <= pos})
    + (IF pos = Len(f) /\ ~NewlineTerminated(f) THEN 1 ELSE 0)

\* C3: when the run loop was entered with a persisted Cursor k, 0 <= k < N,
\* the first activation hands line k+1 of the words file to the output sink
\* and leaves Cursor = k+1.
C3_StartupSkip ==
    (InRun /\ acts = 1 /\ start_cursor < NumLines(words)) =>
        /\ last_act = "emit"
        /\ lines_to_skip = start_cursor + 1
        /\ sink_text = LineText(words, start_cursor + 1)

(* ================================ C4 ==================================== *)
\* C4: a cursor c < 10^8 that the shutdown rendered with u64_to_array::<8>
\* is what parse_lines_to_skip decodes from that record at the next start.
C4_LoadOfSave ==
    (run > 1 /\ pc = "loop" /\ prev_exit = "done" /\ prev_cursor < Pow10(SKILINE_NUMBER_SIZE)) =>
        lines_to_skip = prev_cursor

\* the largest eight-digit cursor made the round trip
C4_Witness ==
    /\ run > 1 /\ pc = "loop" /\ prev_exit = "done"
    /\ prev_cursor = 99999999
    /\ skipline = <<57, 57, 57, 57, 57, 57, 57, 57>>
    /\ lines_to_skip = 99999999

(* ================================ C5 ==================================== *)
\* C5: the text handed to the output sink by an activation is the line it
\* read from the words file with only the '\n' removed, also for a last line
\* that has no '\n'.
C5_TerminatorOnly ==
    (InRun /\ last_act = "emit") =>
        sink_text = LineText(words, LinesBefore(words, ifile_pos))

(* ================================ C6 ==================================== *)
\* the events the claim expects: per character with a key, down then up
RECURSIVE DownUpPairs(_)
DownUpPairs(text) ==
    IF text = <<>> THEN <<>>
    ELSE LET vkey == VkKeyScanW(Head(text))
             key  == [wVk |-> vkey % 256, wScan |-> MapVirtualKeyW(vkey % 256)]
         IN  (IF vkey < 0 THEN <<>>
              ELSE <<[wVk |-> key.wVk, wScan |-> key.wScan, dwFlags |-> 0],
                     [wVk |-> key.wVk, wScan |-> key.wScan, dwFlags |-> KEYEVENTF_KEYUP]>>)
             \o DownUpPairs(Tail(text))

\* C6: in keystroke mode the events injected for a text are, in the order of
\* the text, a key-down then a key-up event for every character that has a
\* key code, and nothing for a character that has none.
C6_KeyDownThenUp ==
    (pc = "emitted" /\ ~use_clipboard) => sent_input = DownUpPairs(sink_text)

(* ================================ C7 ==================================== *)
\* C7: in clipboard mode, when the clipboard opened and the block was
\* allocated, the published block is the bytes of the text followed by one
\* zero byte, whatever the block held when it was allocated.
C7_ClipboardContent ==
    (pc = "emitted" /\ use_clipboard /\ ~clip_error /\ clipboard # <<>>) =>
        clipboard = sink_text \o <<NUL>>

(* ================================ C8 ==================================== *)
\* value of a sequence of ASCII digits as a decimal numeral
RECURSIVE DecimalValue(_)
DecimalValue(ds) ==
    IF ds = <<>> THEN 0
    ELSE (Head(ds) - 48) * Pow10(Len(ds) - 1) + DecimalValue(Tail(ds))

\* C8: the cursor loaded from an 8-byte record is the decimal numeral made of
\* the record's bytes '0'..'9' in their order, all other bytes ignored; it is
\* 0 when the record has no digit.
C8_DigitsInOrder ==
    (pc = "loop" /\ Len(skipline) = SKILINE_NUMBER_SIZE) =>
        lines_to_skip = DecimalValue(SelectSeq(skipline, LAMBDA b : b \in 48..57))

\* the record "/9" NUL "0:9" NUL NUL was loaded as 909
C8_Witness ==
    /\ pc = "loop"
    /\ skipline = <<47, 57, 0, 48, 58, 57, 0, 0>>
    /\ lines_to_skip = 909

(* ================================ C9 ==================================== *)
\* C9: an activation whose OpenClipboard fails leaves IS_RUNNING as it was
\* and returns to the run loop's sleep, from where the loop polls again.
C9_ClipFailureNotFatal ==
    [][(pc = "poll" /\ acts' = acts + 1 /\ clip_error')
          => (IS_RUNNING' = IS_RUNNING /\ pc' = "sleep")]_vars

\* after a clipboard-open failure the loop went on and a later hotkey
\* message got its activation
C9_Witness ==
    /\ clip_failed_at > 0
    /\ acts > clip_failed_at
    /\ IS_RUNNING
    /\ pc = "poll"

(* ================================ C10 =================================== *)
\* C10 as claimed: when poll_event has returned after performing an
\* activation, no message that was queued at the start of the tick is left.
C10_DrainsAfterActivation ==
    (pc = "sleep" /\ tick_acts > 0) => tick_pending = 0

\* C10 amended: an activation ends the tick.  After it poll_event is no
\* longer draining, so a tick performs at most one activation and whatever
\* is queued behind the hotkey message waits for a later tick.
C10_ActivationEndsTick ==
    /\ tick_acts <= 1
    /\ tick_acts = 1 => pc # "poll"

\* main sleeps after an activation while a message from the start of the
\* tick is still queued
C10_Witness ==
    /\ pc = "sleep"
    /\ tick_acts = 1
    /\ tick_pending > 0
    /\ queue # <<>>

(* ================================ C11 =================================== *)
\* C11 as claimed: once a message that clears IS_RUNNING has been handled, no
\* activation is performed in that run.
C11_NoActivationAfterStop == acts_after_stop = 0

\* C11 amended: a run performs at most one activation after IS_RUNNING was
\* cleared, none when WM_QUIT cleared it, and with the flag cleared the
\* thread is inside poll_event only in the tick that cleared it, before any
\* such activation: no new tick is started.
C11_StopEndsAfterTick ==
    /\ acts_after_stop <= 1
    /\ stopped_by = "WM_QUIT" => acts_after_stop = 0
    /\ (pc = "poll" /\ ~IS_RUNNING) => (stopped_by = "WM_CLOSE" /\ acts_after_stop = 0)

\* a hotkey message queued behind WM_CLOSE was activated in the same tick
C11_Witness ==
    /\ stopped_by = "WM_CLOSE"
    /\ ~IS_RUNNING
    /\ acts_after_stop = 1
    /\ pc = "sleep"

(* ================================ C12 =================================== *)
\* C12: skipline.dat is not written by a run before its run loop has been
\* left; the run then writes it once, and what the record decodes to
\* afterwards is the Cursor the last completed activation left.
C12_SingleWriteAfterLoop ==
    /\ writes <= 1
    /\ writes = 1 <=> pc = "done"
    /\ pc = "done" =>
          /\ Len(skipline) >= SKILINE_NUMBER_SIZE
          /\ parse_lines_to_skip(SubSeq(skipline, 1, SKILINE_NUMBER_SIZE)) = lines_to_skip

\* a run with activations has ended and its one write holds their Cursor
C12_Witness ==
    /\ pc = "done"
    /\ writes = 1
    /\ acts >= 2
    /\ lines_to_skip = 2
    /\ start_cursor = 0
    /\ SubSeq(skipline, 1, SKILINE_NUMBER_SIZE) = <<50, 0, 0, 0, 0, 0, 0, 0>>

(* ================================ C13 =================================== *)
\* C13 as claimed: in the run loop the number of lines the stream has read
\* past equals Cursor, whatever value was loaded at startup.
C13_PositionMatchesCursor ==
    InRun => LinesBefore(words, ifile_pos) = lines_to_skip

\* C13 amended: the number of lines read past equals Cursor after startup
\* when the loaded value is at most the number of lines of the file, and in
\* every case once an activation has been performed.
C13_PositionMatchesValidCursor ==
    (InRun /\ (start_cursor <= NumLines(words) \/ acts >= 1)) =>
        LinesBefore(words, ifile_pos) = lines_to_skip

\* startup loaded 2 on a file with at least two lines and skipped them
C13_Witness ==
    /\ pc = "loop"
    /\ start_cursor = 2
    /\ NumLines(words) >= 2
    /\ acts = 0
    /\ ifile_pos > 0
    /\ LinesBefore(words, ifile_pos) = 2

(* ================================ C14 =================================== *)
\* C14 as claimed: in the run loop Cursor never exceeds the number of lines
\* of the words file, whatever the record and the file are.
C14_CursorWithinFile ==
    InRun => lines_to_skip <= NumLines(words)

\* C14 amended: Cursor is at most the number of lines when the loaded value
\* was, and in every case once an activation has been performed; before that
\* a larger loaded value is kept as it is.
C14_CursorWithinFileAfterLoad ==
    InRun =>
        /\ (start_cursor <= NumLines(words) \/ acts >= 1) => lines_to_skip <= NumLines(words)
        /\ (start_cursor > NumLines(words) /\ acts = 0) => lines_to_skip = start_cursor

\* a loaded value beyond the file was reset by the first activation
C14_Witness ==
    /\ InRun
    /\ start_cursor > NumLines(words)
    /\ acts = 1
    /\ last_act = "wrap"
    /\ lines_to_skip = 0

(* ================================ C15 =================================== *)
\* C15: a run whose startup met a failure (window, hotkey, opening or reading
\* skipline.dat, opening words.txt) is aborted: it never enters the run loop
\* and performs no activation.
C15_StartupFailureTerminal ==
    startup_error # "none" => (pc = "aborted" /\ acts = 0)

(* ================================ C16 =================================== *)
\* C16: after a failed read_line or rewind in an activation the shutdown
\* sequence still runs: the hotkey gets unregistered and the Cursor written.
C16_ShutdownAfterReadFailure ==
    (pc = "panicked") ~> (~hotkey_registered /\ writes = 1)

(* ================================ C20 =================================== *)
\* the number of identifier-1 hotkey messages waiting in the queue
PendingHotkeys ==
    Cardinality({i \in 1..Len(queue) : queue[i] = [message |-> "WM_HOTKEY", wParam |-> 1]})

\* the run loop has stopped ticking: the flag was cleared or main panicked
LoopStopped == ~IS_RUNNING \/ pc = "panicked"

\* C20: under a fair scheduler, when n identifier-1 hotkey messages are
\* waiting in the queue of a running loop, n more activations are performed,
\* unless a shutdown message is handled or the loop stops first.
C20_PendingHotkeysActivate ==
    \A a \in 0..MaxPosts : \A n \in 1..MaxQueue :
        (InRun /\ IS_RUNNING /\ acts = a /\ PendingHotkeys = n)
            ~> (acts >= a + n \/ LoopStopped)

\* one activation done and two more hotkey presses waiting at the same time
C20_Witness ==
    /\ pc = "sleep"
    /\ IS_RUNNING
    /\ acts = 1
    /\ PendingHotkeys = 2

(* ================================ C18 =================================== *)
\* the decimal numeral of c, most significant digit first
RECURSIVE DigitsOf(_)
DigitsOf(c) ==
    IF c < 10 THEN <<48 + c>> ELSE Append(DigitsOf(c \div 10), 48 + (c % 10))

\* the record the shutdown sequence has just written
SavedRecord == SubSeq(skipline, 1, SKILINE_NUMBER_SIZE)

\* C18 as claimed: the record written for c < 10^8 has the last decimal digit
\* of c in its last byte and only filler (no digit) in front of c's digits.
C18_RightAligned ==
    (pc = "done" /\ prev_cursor < Pow10(SKILINE_NUMBER_SIZE)) =>
        /\ Len(skipline) >= SKILINE_NUMBER_SIZE
        /\ LET n == Len(DigitsOf(prev_cursor))
           IN  /\ SubSeq(SavedRecord, SKILINE_NUMBER_SIZE - n + 1, SKILINE_NUMBER_SIZE)
                     = DigitsOf(prev_cursor)
               /\ \A k \in 1..(SKILINE_NUMBER_SIZE - n) : SavedRecord[k] \notin 48..57

\* C18 amended: the record written for c < 10^8 has the decimal digits of c
\* in its first bytes, most significant first, and NUL in every byte after.
C18_LeftAligned ==
    (pc = "done" /\ prev_cursor < Pow10(SKILINE_NUMBER_SIZE)) =>
        /\ Len(skipline) >= SKILINE_NUMBER_SIZE
        /\ LET n == Len(DigitsOf(prev_cursor))
           IN  /\ SubSeq(SavedRecord, 1, n) = DigitsOf(prev_cursor)
               /\ \A k \in (n + 1)..SKILINE_NUMBER_SIZE : SavedRecord[k] = 0

\* 120 was saved as "120" followed by five NUL bytes
C18_Witness ==
    /\ pc = "done"
    /\ prev_cursor = 120
    /\ skipline = <<49, 50, 48, 0, 0, 0, 0, 0>>

(* ================================ C19 =================================== *)
\* C19: whatever the record held before, after the shutdown write of c < 10^8
\* the file has a full record whose digit bytes spell c, so that every load
\* of it returns c; no digit of the older record is left in it.
C19_SaveReplacesRecord ==
    (pc = "done" /\ prev_cursor < Pow10(SKILINE_NUMBER_SIZE)) =>
        /\ Len(skipline) >= SKILINE_NUMBER_SIZE
        /\ DecimalValue(SelectSeq(SavedRecord, LAMBDA b : b \in 48..57)) = prev_cursor
        /\ \A b \in ReadExact(skipline) : parse_lines_to_skip(b) = prev_cursor

\* the run loaded 99999999 and saved 7: the record is "7" and seven NUL bytes
C19_Witness ==
    /\ pc = "done"
    /\ start_cursor = 99999999
    /\ prev_cursor = 7
    /\ skipline = <<55, 0, 0, 0, 0, 0, 0, 0>>

(* ================================ C17 =================================== *)
\* poll_event takes the first message out of the queue
RemovesHead == pc = "poll" /\ queue # <<>> /\ queue' = Tail(queue)

\* the message at the head of the queue is the hotkey with identifier 1
HeadIsHotkeyOne == Head(queue) = [message |-> "WM_HOTKEY", wParam |-> 1]

\* the stream moves over exactly one line of words.txt, or rewinds from the end
ReadsOneLine ==
    \/ /\ ifile_pos >= Len(words)
       /\ ifile_pos' = 0
       /\ lines_to_skip' = 0
    \/ /\ ifile_pos < ifile_pos'
       /\ ifile_pos' <= Len(words)
       /\ \A k \in (ifile_pos + 1)..(ifile_pos' - 1) : words[k] # NL
       /\ words[ifile_pos'] = NL \/ ifile_pos' = Len(words)
       /\ lines_to_skip' = lines_to_skip + 1

\* C17: removing an identifier-1 hotkey message performs exactly one
\* activation (one line read, one cursor update) unless the read fails;
\* removing any other message performs none; and the activation count of a
\* run changes in no other step.
C17_OneActivationPerHotkey ==
    [][ /\ (RemovesHead /\ HeadIsHotkeyOne /\ pc' # "panicked") =>
               (acts' = acts + 1 /\ ReadsOneLine)
        /\ (RemovesHead /\ ~HeadIsHotkeyOne) =>
               UNCHANGED <<acts, lines_to_skip, ifile_pos, last_act, sink_text,
                           sent_input, clipboard>>
        /\ (acts' # acts) =>
               \/ RemovesHead /\ HeadIsHotkeyOne /\ acts' = acts + 1
               \/ pc = "done" /\ acts' = 0
      ]_vars

\* three messages were removed in the first run, the loop is still running,
\* and one activation was counted: the other two were not the hotkey
C17_Witness ==
    /\ run = 1
    /\ pc = "sleep"
    /\ IS_RUNNING
    /\ posted = 3
    /\ queue = <<>>
    /\ acts = 1

====
